---- MODULE Spec2Model ----
(***************************************************************************)
(* The ZooKeeper agent check of checks.d/zk.py: the command transport      *)
(* (_send_command), the two response parsers (parse_stat, parse_mntr), the *)
(* instance-status gauges (set_instance_status) and the orchestration of   *)
(* one invocation of ZookeeperCheck.check.                                 *)
(*                                                                         *)
(* Text is modelled structurally.  A response buffer is a sequence of      *)
(* lines plus a flag telling whether the last line ends with a line        *)
(* terminator; a line is a record naming its shape; a value is a token     *)
(* naming what the Python conversions int(), long(), split() make of it.   *)
(* Digit strings are sequences of the characters "0".."9", so that the     *)
(* string comparisons of the code stay string comparisons here.            *)
(***************************************************************************)
EXTENDS Integers, Sequences, FiniteSets, TLC

VARIABLES
    expected_mode,   \* check: instance['expected_mode'], stripped ("" when absent)
    pc,              \* position of check: start, ruok, stat, mntr, done, raised
    exc,             \* the exception an invocation of check ended with ("" if none)
    zk_version,      \* check: local zk_version (<<>> is None)
    sc,              \* position of the running _send_command
    num_reads,       \* _send_command: local num_reads
    recvs,           \* number of sock.recv calls made by the running _send_command
    buf,             \* the buffer the last _send_command returned
    nsock,           \* sockets created so far
    open_socks,      \* the sockets that are open
    calls,           \* commands _send_command was called with, in order
    outcomes,        \* how each _send_command call ended, in order
    service_checks,  \* AgentCheck.service_check calls, in order
    gauges,          \* AgentCheck.gauge calls, in order
    timeouts,        \* increments of zookeeper.timeouts
    client_exception,\* increments of zookeeper.datadog_client_exception
    instance_sets,   \* AgentCheck.set('zookeeper.instances', ...) calls: their status
    parsed,          \* what parse_stat / parse_mntr did in this invocation, in order
    ret              \* the parser specifications: the value the parser returned

vars == <<expected_mode, pc, exc, zk_version, sc, num_reads, recvs, buf, nsock,
          open_socks, calls, outcomes, service_checks, gauges, timeouts,
          client_exception, instance_sets, parsed, ret>>

-----------------------------------------------------------------------------
(* Bounds of the model *)

\* longest digit string of a version segment drawn by the parser specification
MaxSegLen == 2

\* most "key value" lines, besides the heading and the zk_server_state line,
\* of a mntr response drawn by the parser specification
MaxKeyLines == 2

\* most calls of set_instance_status made in a row by its own specification
MaxStatusCalls == 2

-----------------------------------------------------------------------------
(* Characters and digit strings *)

Digits == {"0", "1", "2", "3", "4", "5", "6", "7", "8", "9"}

DigitVal(c) ==
    CASE c = "0" -> 0 [] c = "1" -> 1 [] c = "2" -> 2 [] c = "3" -> 3
      [] c = "4" -> 4 [] c = "5" -> 5 [] c = "6" -> 6 [] c = "7" -> 7
      [] c = "8" -> 8 [] c = "9" -> 9

\* ord(c) of a digit character
Ord(c) == 48 + DigitVal(c)

\* Python's cmp on two strings: by character code, a proper prefix is smaller
RECURSIVE StrCmp(_, _)
StrCmp(s, t) ==
    IF s = <<>> /\ t = <<>> THEN 0
    ELSE IF s = <<>> THEN -1
    ELSE IF t = <<>> THEN 1
    ELSE IF Ord(Head(s)) < Ord(Head(t)) THEN -1
    ELSE IF Ord(Head(s)) > Ord(Head(t)) THEN 1
    ELSE StrCmp(Tail(s), Tail(t))

\* Python's cmp on two tuples of strings
RECURSIVE TupleStrCmp(_, _)
TupleStrCmp(a, b) ==
    IF a = <<>> /\ b = <<>> THEN 0
    ELSE IF a = <<>> THEN -1
    ELSE IF b = <<>> THEN 1
    ELSE LET c == StrCmp(Head(a), Head(b))
         IN  IF c # 0 THEN c ELSE TupleStrCmp(Tail(a), Tail(b))

\* int(s) of a digit string
RECURSIVE IntOfDigits(_)
IntOfDigits(s) ==
    IF s = <<>> THEN 0
    ELSE 10 * IntOfDigits(SubSeq(s, 1, Len(s) - 1)) + DigitVal(s[Len(s)])

\* Python's cmp on two lists of integers
RECURSIVE ListIntCmp(_, _)
ListIntCmp(a, b) ==
    IF a = <<>> /\ b = <<>> THEN 0
    ELSE IF a = <<>> THEN -1
    ELSE IF b = <<>> THEN 1
    ELSE IF Head(a) < Head(b) THEN -1
    ELSE IF Head(a) > Head(b) THEN 1
    ELSE ListIntCmp(Tail(a), Tail(b))

-----------------------------------------------------------------------------
(* Tokens: the text after "key:" on a line, or one word of a mntr line *)

NoTok == [ty |-> "none", n |-> 0, lat |-> <<>>, hex |-> <<>>, w |-> ""]
\* a decimal integer literal
IntTok(n) == [NoTok EXCEPT !.ty = "int", !.n = n]
\* "<min>/<avg>/<max>", three integer literals
LatTok(a, b, c) == [NoTok EXCEPT !.ty = "lat", !.lat = <<a, b, c>>]
\* "0x<hex digits>", the digits given by their values 0..15
HexTok(d) == [NoTok EXCEPT !.ty = "hex", !.hex = d]
\* any other text without ':' and without white space
WordTok(w) == [NoTok EXCEPT !.ty = "word", !.w = w]

(* Lines *)

NoLine == [t |-> "eof", key |-> "", val |-> NoTok, seg |-> <<>>, toks |-> <<>>]
\* "Zookeeper version: <a>.<b>.<c>-<revision>, built on <date> <hh:mm> GMT"
VerLine(a, b, c) == [NoLine EXCEPT !.t = "ver", !.seg = <<a, b, c>>]
\* "<key>: <value>", one ':' on the line
KV(key, tok) == [NoLine EXCEPT !.t = "kv", !.key = key, !.val = tok]
\* " /<ip>:<port>[1](queued=0,recved=12,sent=0)", one ':' on the line
ClientLine == [NoLine EXCEPT !.t = "client", !.val = WordTok("client")]
\* a line of white space only
BlankLine == [NoLine EXCEPT !.t = "blank"]
\* a line of text without ':' (key holds the text)
TextLine(w) == [NoLine EXCEPT !.t = "text", !.key = w]
\* a mntr line: white-space separated words
MnLine(toks) == [NoLine EXCEPT !.t = "mn", !.toks = toks]
\* readline() at end of file returns ''
EofLine == NoLine

\* A buffer: its lines, and whether the last one ends with a line terminator
Buffer(lines, term) == [lines |-> lines, term |-> term]
EmptyBuffer == Buffer(<<>>, FALSE)

\* buf.readline() with the cursor before line i
ReadLine(b, i) == IF i <= Len(b.lines) THEN b.lines[i] ELSE EofLine

\* whether the text readline() returns for line i ends with "\n"
HasNewline(b, i) == i < Len(b.lines) \/ (i = Len(b.lines) /\ b.term)

-----------------------------------------------------------------------------
(* Python conversions on tokens *)

\* value.strip().lower() of the words the model uses (the others are lower case)
Lower(w) ==
    CASE w = "Leader" -> "leader"
      [] w = "LEADER" -> "leader"
      [] w = "Follower" -> "follower"
      [] w = "Standalone" -> "standalone"
      [] w = "Observer" -> "observer"
      [] w = "ReadOnly" -> "readonly"
      [] OTHER -> w

HexChar(v) ==
    CASE v = 10 -> "a" [] v = 11 -> "b" [] v = 12 -> "c" [] v = 13 -> "d"
      [] v = 14 -> "e" [] v = 15 -> "f" [] OTHER -> ToString(v)

RECURSIVE HexStr(_)
HexStr(d) == IF d = <<>> THEN "" ELSE HexChar(Head(d)) \o HexStr(Tail(d))

\* the lower-cased text of a token
TokStr(tok) ==
    CASE tok.ty = "word" -> Lower(tok.w)
      [] tok.ty = "int" -> ToString(tok.n)
      [] tok.ty = "hex" -> "0x" \o HexStr(tok.hex)
      [] tok.ty = "lat" -> ToString(tok.lat[1]) \o "/" \o ToString(tok.lat[2])
                               \o "/" \o ToString(tok.lat[3])
      [] OTHER -> ""

\* `_, value = line.split(':')` unpacks: exactly one ':' on the line
SplitsInTwo(line) == line.t \in {"kv", "client"}

\* int(value.strip()) and long(value.strip()) succeed
IsInt(line) == SplitsInTwo(line) /\ line.val.ty = "int"

\* `l_min, l_avg, l_max = [int(v) for v in value.strip().split('/')]` succeeds
IsLatency(line) == SplitsInTwo(line) /\ line.val.ty = "lat"

\* the decimal digits of a natural number, as digit values
RECURSIVE DecDigits(_)
DecDigits(n) == IF n < 10 THEN <<n>> ELSE Append(DecDigits(n \div 10), n % 10)

\* the digits long(value.strip(), 16) reads: those after "0x", or the digits
\* of a decimal literal read in base 16 (integer literals on "key: value"
\* lines are counters, never negative)
HexDigitsOf(tok) ==
    CASE tok.ty = "hex" -> tok.hex
      [] tok.ty = "int" -> DecDigits(tok.n)
      [] OTHER -> <<>>

RECURSIVE StripZeros(_)
StripZeros(d) ==
    IF d # <<>> /\ Head(d) = 0 THEN StripZeros(Tail(d)) ELSE d

\* long(value.strip(), 16) succeeds
IsHex(line) ==
    /\ SplitsInTwo(line)
    /\ line.val.ty \in {"hex", "int"}
    /\ HexDigitsOf(line.val) # <<>>

\* struct.pack('>q', zxid) succeeds: 0 <= zxid < 2^63
PacksAsInt64(d) ==
    LET s == StripZeros(d)
    IN  Len(s) < 16 \/ (Len(s) = 16 /\ s[1] <= 7)

\* struct.pack('>q', zxid): the 8 bytes as 16 hex digits, big-endian
RECURSIVE PadTo16(_)
PadTo16(d) == IF Len(d) >= 16 THEN d ELSE PadTo16(<<0>> \o d)

zxid_bytes(d) == PadTo16(StripZeros(d))

RECURSIVE HexVal(_)
HexVal(d) ==
    IF d = <<>> THEN 0
    ELSE 16 * HexVal(SubSeq(d, 1, Len(d) - 1)) + d[Len(d)]

\* struct.unpack('>i', b): four bytes (8 hex digits) as a signed 32-bit integer
unpack_i(h) ==
    (IF h[1] >= 8 THEN h[1] - 16 ELSE h[1]) * 268435456 + HexVal(SubSeq(h, 2, 8))

zxid_epoch(d) == unpack_i(SubSeq(zxid_bytes(d), 1, 8))

\* faulty variant: the count read from the high-order bytes
zxid_count_high(d) == unpack_i(SubSeq(zxid_bytes(d), 1, 8))

zxid_count(d) == unpack_i(SubSeq(zxid_bytes(d), 9, 16))

-----------------------------------------------------------------------------
(* parse_stat *)

\* version_pattern.match(start_line) is not None
version_pattern(line) == line.t = "ver"

\* ('3', '4', '4')
ConnectionsSince == << <<"3">>, <<"4">>, <<"4">> >>

\* has_connections_val = version_tuple >= ('3', '4', '4'), on tuples of strings
has_connections_val(version_tuple) ==
    TupleStrCmp(version_tuple, ConnectionsSince) >= 0

\* "%s.%s.%s" % version_tuple
FormatVersion(version_tuple) ==
    version_tuple[1] \o <<".">> \o version_tuple[2] \o <<".">> \o version_tuple[3]

\* the index of the first blank line (or the end of the buffer) at or after i:
\* where the loop over the client lines stops
RECURSIVE ClientsEnd(_, _)
ClientsEnd(b, i) ==
    IF ReadLine(b, i).t \in {"blank", "eof"} THEN i ELSE ClientsEnd(b, i + 1)

\* return (None, None, "inactive", None)
StatInactive ==
    [kind |-> "ok", none |-> TRUE, metrics |-> <<>>, tags |-> <<>>,
     mode |-> "inactive", version |-> <<>>]

\* a parser leaving by an exception
ParseRaise ==
    [kind |-> "raise", none |-> TRUE, metrics |-> <<>>, tags |-> <<>>,
     mode |-> "", version |-> <<>>]

parse_stat(b) ==
    LET start_line == ReadLine(b, 1) IN
    IF ~version_pattern(start_line) THEN StatInactive
    ELSE
      LET version_tuple == start_line.seg
          has_conn == has_connections_val(version_tuple)
          \* line 2 is skipped as the "Clients:" header; the client lines follow
          e == ClientsEnd(b, 3)
          connections == e - 3
          p == e + 1
          q == IF has_conn THEN p + 4 ELSE p + 3
          l_lat == ReadLine(b, p)
          l_recv == ReadLine(b, p + 1)
          l_sent == ReadLine(b, p + 2)
          l_conn == ReadLine(b, p + 3)
          l_out == ReadLine(b, q)
          l_zxid == ReadLine(b, q + 1)
          l_mode == ReadLine(b, q + 2)
          l_nodes == ReadLine(b, q + 3)
          ok == /\ IsLatency(l_lat)
                /\ IsInt(l_recv)
                /\ IsInt(l_sent)
                /\ has_conn => IsInt(l_conn)
                /\ IsInt(l_out)
                /\ IsHex(l_zxid)
                /\ PacksAsInt64(HexDigitsOf(l_zxid.val))
                /\ SplitsInTwo(l_mode)
                /\ IsInt(l_nodes)
      IN
      IF ~ok THEN ParseRaise
      ELSE
        LET zxid == HexDigitsOf(l_zxid.val)
            mode == TokStr(l_mode.val)
        IN  [kind |-> "ok", none |-> FALSE,
             metrics |->
               << <<"zookeeper.latency.min", l_lat.val.lat[1]>>,
                  <<"zookeeper.latency.avg", l_lat.val.lat[2]>>,
                  <<"zookeeper.latency.max", l_lat.val.lat[3]>>,
                  <<"zookeeper.bytes_received", l_recv.val.n>>,
                  <<"zookeeper.bytes_sent", l_sent.val.n>>,
                  <<"zookeeper.connections",
                    IF has_conn THEN l_conn.val.n ELSE connections>>,
                  <<"zookeeper.bytes_outstanding", l_out.val.n>>,
                  <<"zookeeper.outstanding_requests", l_out.val.n>>,
                  <<"zookeeper.zxid.epoch", zxid_epoch(zxid)>>,
                  <<"zookeeper.zxid.count", zxid_count(zxid)>>,
                  <<"zookeeper.nodes", l_nodes.val.n>> >>,
             tags |-> << "mode:" \o mode >>,
             mode |-> mode,
             version |-> FormatVersion(version_tuple)]

-----------------------------------------------------------------------------
(* The version gate of check *)

\* LooseVersion(vstring).version: the runs of digits as integers, '.' dropped
RECURSIVE LooseParse(_, _)
LooseParse(s, cur) ==
    IF s = <<>> THEN (IF cur = <<>> THEN <<>> ELSE <<IntOfDigits(cur)>>)
    ELSE IF Head(s) \in Digits THEN LooseParse(Tail(s), Append(cur, Head(s)))
    ELSE (IF cur = <<>> THEN <<>> ELSE <<IntOfDigits(cur)>>)
             \o LooseParse(Tail(s), <<>>)

LooseVersion(vstring) == LooseParse(vstring, <<>>)

\* "3.4.0"
MntrSince == <<"3", ".", "4", ".", "0">>

\* faulty variant: the threshold version itself passes the gate
supports_mntr_ge(version) ==
    /\ version # <<>>
    /\ ListIntCmp(LooseVersion(version), LooseVersion(MntrSince)) >= 0

\* zk_version and LooseVersion(zk_version) > LooseVersion("3.4.0")
supports_mntr(version) ==
    /\ version # <<>>
    /\ ListIntCmp(LooseVersion(version), LooseVersion(MntrSince)) > 0

-----------------------------------------------------------------------------
(* parse_mntr *)

\* One white-space separated word of a mntr line: an integer literal, or a
\* text cut into atoms ("zk", "_", and pieces that hold neither "zk" nor "_")
MInt(n) == [atoms |-> <<ToString(n)>>, isint |-> TRUE, n |-> n]
MWord(atoms) == [atoms |-> atoms, isint |-> FALSE, n |-> 0]

\* 'This ZooKeeper instance is not currently serving requests'
Sentinel == "This ZooKeeper instance is not currently serving requests"

\* len(line.split()) of the lines a mntr buffer holds: word lines, text
\* lines and blank lines
NumWords(line) ==
    CASE line.t = "mn" -> Len(line.toks)
      [] line.t = "text" -> (IF line.key = Sentinel THEN 9 ELSE 1)
      [] OTHER -> 0

\* faulty variant: '_' replaced by '_'
ReplaceAtomKeepsUnderscore(a) ==
    CASE a = "zk" -> "zookeeper"
      [] OTHER -> a

\* one atom under .replace('zk', 'zookeeper').replace('_', '.')
ReplaceAtom(a) ==
    CASE a = "zk" -> "zookeeper"
      [] a = "_" -> "."
      [] OTHER -> a

RECURSIVE RenameKey(_)
RenameKey(atoms) ==
    IF atoms = <<>> THEN ""
    ELSE ReplaceAtom(Head(atoms)) \o RenameKey(Tail(atoms))

RECURSIVE LowerText(_)
LowerText(atoms) ==
    IF atoms = <<>> THEN "" ELSE Lower(Head(atoms)) \o LowerText(Tail(atoms))

\* metrics[name] = data[1]: a dict as a set of <<name, word>> pairs
DictPut(d, k, v) == {e \in d : e[1] # k} \cup {<<k, v>>}

DictHas(d, k) == \E e \in d : e[1] = k

DictGet(d, k) == (CHOOSE e \in d : e[1] = k)[2]

\* the dict after the loop over the lines i.. of the buffer
RECURSIVE MntrDict(_, _, _)
MntrDict(b, i, d) ==
    IF i > Len(b.lines) THEN d
    ELSE MntrDict(b, i + 1,
                  DictPut(d, RenameKey(b.lines[i].toks[1].atoms), b.lines[i].toks[2]))

\* return (None, 'inactive')
MntrInactive == [kind |-> "ok", none |-> TRUE, metrics |-> {}, state |-> "inactive"]

MntrRaise == [kind |-> "raise", none |-> TRUE, metrics |-> {}, state |-> ""]

\* first == 'This ZooKeeper instance is not currently serving requests'
is_sentinel(b) ==
    /\ ReadLine(b, 1).t = "text"
    /\ ReadLine(b, 1).key = Sentinel
    /\ ~HasNewline(b, 1)

parse_mntr(b) ==
    IF is_sentinel(b) THEN MntrInactive
    ELSE IF \E i \in 2..Len(b.lines) : NumWords(b.lines[i]) # 2 THEN MntrRaise
    ELSE
      LET metrics == MntrDict(b, 2, {}) IN
      IF ~DictHas(metrics, "zookeeper.server.state") THEN MntrRaise
      ELSE
        LET st == DictGet(metrics, "zookeeper.server.state")
            state == IF st.isint THEN ToString(st.n) ELSE LowerText(st.atoms)
            others == {e \in metrics : e[1] # "zookeeper.server.state"}
        IN  IF \E e \in others : ~e[2].isint THEN MntrRaise
            ELSE [kind |-> "ok", none |-> FALSE,
                  metrics |-> {<<e[1], e[2].n>> : e \in others},
                  state |-> state]

-----------------------------------------------------------------------------
(* What check emits *)

OK == "OK"
WARNING == "WARNING"
CRITICAL == "CRITICAL"

ServiceCheck(name, status) == [name |-> name, status |-> status]

Gauge(name, value, tags) == [name |-> name, value |-> value, tags |-> tags]

\* the keys of the dict `gauges` of set_instance_status
InstanceStates ==
    <<"leader", "follower", "observer", "standalone", "down", "inactive", "unknown">>

InstanceStateSet == {InstanceStates[i] : i \in DOMAIN InstanceStates}

\* faulty variant: the fall-back for a status that is no key is the first key
selected_state_first_key(status) ==
    IF status \in InstanceStateSet THEN status ELSE InstanceStates[1]

\* faulty variant: no fall-back to 'unknown' for a status that is no key
selected_state_nofallback(status) == status

\* the key set to 1: gauges[status] = 1 if status in gauges.keys() else
\* gauges['unknown'] = 1
selected_state(status) ==
    IF status \in InstanceStateSet THEN status ELSE "unknown"

\* the gauge calls of set_instance_status(hostname, status)
set_instance_status(status) ==
    [i \in DOMAIN InstanceStates |->
        Gauge("zookeeper.instances." \o InstanceStates[i],
              IF InstanceStates[i] = selected_state(status) THEN 1 ELSE 0,
              <<>>)]

\* for metric, value in metrics: self.gauge(metric, value, tags=tags + new_tags)
stat_gauges(r) ==
    IF r.mode # "inactive"
    THEN [i \in DOMAIN r.metrics |-> Gauge(r.metrics[i][1], r.metrics[i][2], r.tags)]
    ELSE <<>>

RECURSIVE SetToSeq(_)
SetToSeq(S) ==
    IF S = {} THEN <<>>
    ELSE LET x == CHOOSE y \in S : TRUE IN <<x>> \o SetToSeq(S \ {x})

\* faulty variant: the state mntr reports is recorded as the instance status
mntr_gauges_records_state(r) ==
    (IF r.state # "inactive"
     THEN LET m == SetToSeq(r.metrics)
          IN  [i \in DOMAIN m |-> Gauge(m[i][1], m[i][2], <<"mode:" \o r.state>>)]
     ELSE <<>>) \o set_instance_status(r.state)

\* for name in metrics: self.gauge(name, metrics[name], tags=tags + [mode])
mntr_gauges(r) ==
    IF r.state # "inactive"
    THEN LET m == SetToSeq(r.metrics)
         IN  [i \in DOMAIN m |-> Gauge(m[i][1], m[i][2], <<"mode:" \o r.state>>)]
    ELSE <<>>

\* ruok = ruok_out.readline(); status OK if ruok == 'imok' else WARNING
ruok_status(b) ==
    IF /\ ReadLine(b, 1).t = "text"
       /\ ReadLine(b, 1).key = "imok"
       /\ ~HasNewline(b, 1)
    THEN OK ELSE WARNING

\* faulty variant: an inactive server passes the comparison
mode_check_inactive_ok(em, state) ==
    IF em = "" THEN <<>>
    ELSE <<ServiceCheck("zookeeper.mode",
                        IF state = em \/ state = "inactive" THEN OK ELSE CRITICAL)>>

\* the zookeeper.mode service check, sent when expected_mode is not empty
mode_check(em, state) ==
    IF em = "" THEN <<>>
    ELSE <<ServiceCheck("zookeeper.mode", IF state = em THEN OK ELSE CRITICAL)>>

-----------------------------------------------------------------------------
(* The replies a server may give to each command *)

D(c) == <<c>>

\* the zxid of the module documentation, 0x1034799c7
DocZxid == <<1, 0, 3, 4, 7, 9, 9, 12, 7>>

\* a `stat` reply of the documented shape; conn < 0: no "Connections:" line
StatReply(a, b, c, nclients, conn, zxid, mode) ==
    Buffer(
      <<VerLine(a, b, c), KV("Clients", WordTok(""))>>
        \o [i \in 1..nclients |-> ClientLine]
        \o <<BlankLine,
             KV("Latency min/avg/max", LatTok(-10, 0, 20007)),
             KV("Received", IntTok(101032173)),
             KV("Sent", IntTok(0))>>
        \o (IF conn >= 0 THEN <<KV("Connections", IntTok(conn))>> ELSE <<>>)
        \o <<KV("Outstanding", IntTok(0)),
             KV("Zxid", HexTok(zxid)),
             KV("Mode", WordTok(mode)),
             KV("Node count", IntTok(487))>>,
      TRUE)

RuokReplies ==
    { Buffer(<<TextLine("imok")>>, FALSE),
      Buffer(<<TextLine("imok")>>, TRUE),
      Buffer(<<TextLine("notok")>>, FALSE) }

StatReplies ==
    { \* the example of the module documentation
      StatReply(D("3"), D("2"), D("2"), 6, -1, DocZxid, "leader"),
      StatReply(D("3"), D("4"), D("5"), 2, 5, DocZxid, "follower"),
      StatReply(D("3"), D("4"), D("0"), 1, -1, DocZxid, "standalone"),
      StatReply(D("3"), D("4"), <<"1", "0">>, 2, 5, DocZxid, "leader"),
      StatReply(D("3"), D("5"), D("0"), 0, 1, DocZxid, "ReadOnly"),
      StatReply(D("3"), <<"1", "0">>, D("0"), 1, -1, DocZxid, "observer"),
      \* a version line followed by a line that is no "key: value"
      Buffer(<<VerLine(D("3"), D("4"), D("5")), KV("Clients", WordTok("")),
               BlankLine, TextLine("garbage")>>, TRUE),
      Buffer(<<TextLine(Sentinel)>>, TRUE) }

MntrHead ==
    MnLine(<<MWord(<<"zk", "_", "version">>), MWord(<<"3.4.5-cdh4.4.0--1,">>),
             MWord(<<"built">>), MWord(<<"on">>), MWord(<<"09/04/2013">>),
             MWord(<<"01:46">>), MWord(<<"GMT">>)>>)

MnKV(key, word) == MnLine(<<MWord(key), word>>)

MntrReplies ==
    { Buffer(<<MntrHead,
               MnKV(<<"zk", "_", "avg", "_", "latency">>, MInt(0)),
               MnKV(<<"zk", "_", "server", "_", "state">>, MWord(<<"Standalone">>)),
               MnKV(<<"zk", "_", "znode", "_", "count">>, MInt(4))>>, TRUE),
      Buffer(<<TextLine(Sentinel)>>, FALSE),
      Buffer(<<TextLine(Sentinel)>>, TRUE),
      \* a line of three words
      Buffer(<<MntrHead,
               MnLine(<<MWord(<<"zk", "_", "avg", "_", "latency">>), MInt(0), MInt(1)>>),
               MnKV(<<"zk", "_", "server", "_", "state">>, MWord(<<"leader">>))>>, TRUE),
      \* a value that is no integer
      Buffer(<<MntrHead,
               MnKV(<<"zk", "_", "avg", "_", "latency">>, MWord(<<"n/a">>)),
               MnKV(<<"zk", "_", "server", "_", "state">>, MWord(<<"leader">>))>>, TRUE),
      \* no zk_server_state
      Buffer(<<MntrHead,
               MnKV(<<"zk", "_", "avg", "_", "latency">>, MInt(0))>>, TRUE) }

Replies(cmd) ==
    CASE cmd = "ruok" -> RuokReplies
      [] cmd = "stat" -> StatReplies
      [] cmd = "mntr" -> MntrReplies

-----------------------------------------------------------------------------
(* _send_command *)

\* max_reads = 10000
max_reads == 10000

\* faulty variant: the cap tested one turn late
cap_exceeded_late(n) == n > max_reads + 1

\* if num_reads > max_reads: raise Exception(...)
cap_exceeded(n) == n > max_reads

\* faulty variant: the socket closed on the normal return only
close_on_return_only(socks, sock, how) ==
    IF how = "returned" THEN socks \ {sock} ELSE socks

\* finally: sock.close(), on any way out of the try block
finally_close(socks, sock, how) == socks \ {sock}

\* the ways _send_command ends
Exits == {"returned", "ZKConnectionFailure", "Exception"}

\* sock = socket.socket(); sock.settimeout(timeout); buf = StringIO()
Enter(command) ==
    /\ nsock' = nsock + 1
    /\ open_socks' = open_socks \cup {nsock + 1}
    /\ calls' = Append(calls, command)
    /\ sc' = "created"
    /\ num_reads' = 0
    /\ recvs' = 0
    /\ buf' = EmptyBuffer

\* the finally clause, then the return or the exception reaches the caller
\* (the locals of the call are gone)
Leave(how, b) ==
    /\ open_socks' = finally_close(open_socks, nsock, how)
    /\ sc' = how
    /\ buf' = b
    /\ outcomes' = Append(outcomes, how)
    /\ num_reads' = 0
    /\ recvs' = 0

CheckVars ==
    <<expected_mode, pc, exc, zk_version, service_checks, gauges, timeouts,
      client_exception, instance_sets, parsed, ret>>

\* sock.connect((host, port))
Connect ==
    /\ sc = "created"
    /\ \E ok \in BOOLEAN :
         IF ok
         THEN sc' = "connected" /\ UNCHANGED <<open_socks, buf, outcomes, num_reads, recvs>>
         ELSE Leave("ZKConnectionFailure", EmptyBuffer)
    /\ UNCHANGED <<CheckVars, nsock, calls>>

\* sock.sendall(command)
SendAll ==
    /\ sc = "connected"
    /\ \E ok \in BOOLEAN :
         IF ok
         THEN sc' = "sent" /\ UNCHANGED <<open_socks, buf, outcomes, num_reads, recvs>>
         ELSE Leave("ZKConnectionFailure", EmptyBuffer)
    /\ UNCHANGED <<CheckVars, nsock, calls>>

\* one sock.recv(chunk_size): a chunk of data, the empty chunk of a closed
\* connection (the buffer then holds the whole reply: nothing when no chunk
\* came before), or socket.timeout / socket.error
RecvChunk ==
    \E r \in {"data", "closed", "error"} :
      CASE r = "data" ->
             /\ recvs' = recvs + 1
             /\ num_reads' = num_reads + 1
             /\ sc' = "reading"
             /\ UNCHANGED <<open_socks, buf, outcomes>>
        [] r = "closed" ->
             \E b \in (IF recvs = 0 THEN {EmptyBuffer} ELSE Replies(calls[Len(calls)])) :
                Leave("returned", b)
        [] r = "error" ->
             Leave("ZKConnectionFailure", EmptyBuffer)

\* chunk = sock.recv(chunk_size); buf.write(chunk); num_reads = 1
RecvFirst ==
    /\ sc = "sent"
    /\ RecvChunk
    /\ UNCHANGED <<CheckVars, nsock, calls>>

\* one turn of `while chunk:`
RecvLoop ==
    /\ sc = "reading"
    /\ IF cap_exceeded(num_reads)
       THEN Leave("Exception", EmptyBuffer)
       ELSE RecvChunk
    /\ UNCHANGED <<CheckVars, nsock, calls>>

-----------------------------------------------------------------------------
(* check *)

SockVars == <<nsock, open_socks, calls, num_reads, recvs, buf>>

\* check is entered: the configuration is read, _send_command('ruok') is called
CheckStart ==
    /\ pc = "start"
    /\ pc' = "ruok"
    /\ Enter("ruok")
    /\ UNCHANGED <<expected_mode, exc, zk_version, outcomes, service_checks, gauges,
                   timeouts, client_exception, instance_sets, parsed, ret>>

\* faulty variant: check returns whatever happened
FinishSwallows(e) ==
    /\ pc' = "done"
    /\ exc' = ""
    /\ sc' = "none"
    /\ UNCHANGED SockVars

\* check ends, by a return (e = "") or by the exception e
Finish(e) ==
    /\ pc' = IF e = "" THEN "done" ELSE "raised"
    /\ exc' = e
    /\ sc' = "none"
    /\ UNCHANGED SockVars

\* the try statement around _send_command('ruok'):
\*   except ZKConnectionFailure: CRITICAL, increment, raise
\*   else: OK or WARNING
\*   finally: service_check, which reads `status`; no clause has bound it when
\*            another exception passes through, and UnboundLocalError replaces it
RuokHandle ==
    /\ pc = "ruok"
    /\ sc \in Exits
    /\ CASE sc = "ZKConnectionFailure" ->
              /\ timeouts' = timeouts + 1
              /\ service_checks' =
                   Append(service_checks, ServiceCheck("zookeeper.ruok", CRITICAL))
              /\ Finish("ZKConnectionFailure")
         [] sc = "Exception" ->
              /\ Finish("UnboundLocalError")
              /\ UNCHANGED <<timeouts, service_checks>>
         [] sc = "returned" ->
              /\ service_checks' =
                   Append(service_checks, ServiceCheck("zookeeper.ruok", ruok_status(buf)))
              /\ pc' = "stat"
              /\ Enter("stat")
              /\ UNCHANGED <<timeouts, exc>>
    /\ UNCHANGED <<expected_mode, zk_version, outcomes, gauges, client_exception,
                   instance_sets, parsed, ret>>

\* faulty variant: mntr is sent whatever the version, None included
GateIgnoresVersion(version) == pc' = "mntr" /\ Enter("mntr") /\ exc' = exc

\* `if zk_version and LooseVersion(zk_version) > LooseVersion("3.4.0")`:
\* _send_command('mntr') is called, or check returns
Gate(version) ==
    IF supports_mntr(version)
    THEN pc' = "mntr" /\ Enter("mntr") /\ exc' = exc
    ELSE Finish("")

\* faulty variant: every failure of the stat command recorded as 'down'
stat_failure_status_down(how) == "down"

\* the status the except clauses around _send_command('stat') record:
\* 'down' under `except ZKConnectionFailure`, 'unknown' under the bare `except`
stat_failure_status(how) ==
    IF how = "ZKConnectionFailure" THEN "down" ELSE "unknown"

\* the try statement around _send_command('stat'), parse_stat being called in
\* its else clause, which no except clause covers; then the version gate
StatHandle ==
    /\ pc = "stat"
    /\ sc \in Exits
    /\ CASE sc = "ZKConnectionFailure" ->
              /\ timeouts' = timeouts + 1
              /\ gauges' = gauges \o set_instance_status(stat_failure_status(sc))
              /\ instance_sets' = Append(instance_sets, stat_failure_status(sc))
              /\ Gate(zk_version)
              /\ UNCHANGED <<client_exception, service_checks, zk_version, parsed>>
         [] sc = "Exception" ->
              /\ client_exception' = client_exception + 1
              /\ gauges' = gauges \o set_instance_status(stat_failure_status(sc))
              /\ instance_sets' = Append(instance_sets, stat_failure_status(sc))
              /\ Gate(zk_version)
              /\ UNCHANGED <<timeouts, service_checks, zk_version, parsed>>
         [] sc = "returned" ->
              LET r == parse_stat(buf) IN
              /\ parsed' = Append(parsed, [cmd |-> "stat", buf |-> buf, res |-> r])
              /\ IF r.kind = "raise"
                 THEN /\ Finish("ParseError")
                      /\ UNCHANGED <<gauges, instance_sets, service_checks, zk_version>>
                 ELSE /\ gauges' = gauges \o stat_gauges(r) \o set_instance_status(r.mode)
                      /\ instance_sets' = Append(instance_sets, r.mode)
                      /\ service_checks' =
                           service_checks \o mode_check(expected_mode, r.mode)
                      /\ zk_version' = r.version
                      /\ Gate(r.version)
              /\ UNCHANGED <<timeouts, client_exception>>
    /\ UNCHANGED <<expected_mode, outcomes, ret>>

\* the try statement around _send_command('mntr'), parse_mntr being called in
\* its else clause
MntrHandle ==
    /\ pc = "mntr"
    /\ sc \in Exits
    /\ CASE sc = "ZKConnectionFailure" ->
              /\ timeouts' = timeouts + 1
              /\ Finish("")
              /\ UNCHANGED <<client_exception, gauges, parsed>>
         [] sc = "Exception" ->
              /\ client_exception' = client_exception + 1
              /\ Finish("")
              /\ UNCHANGED <<timeouts, gauges, parsed>>
         [] sc = "returned" ->
              LET r == parse_mntr(buf) IN
              /\ parsed' = Append(parsed, [cmd |-> "mntr", buf |-> buf, res |-> r])
              /\ IF r.kind = "raise"
                 THEN Finish("ParseError") /\ UNCHANGED gauges
                 ELSE Finish("") /\ gauges' = gauges \o mntr_gauges(r)
              /\ UNCHANGED <<timeouts, client_exception>>
    /\ UNCHANGED <<expected_mode, zk_version, outcomes, service_checks,
                   instance_sets, ret>>

-----------------------------------------------------------------------------
(* One invocation of check against a server that answers as it likes *)

\* instance.get('expected_mode') as configured, cut into pieces of white
\* space and text; <<>> is the key left out, None or ''
ConfiguredModes == {<<>>, <<" ">>, <<"leader">>, <<" ", "leader", " ">>}

\* s.strip()
RECURSIVE strip(_)
strip(s) ==
    IF s = <<>> THEN ""
    ELSE IF Head(s) = " " THEN strip(Tail(s))
    ELSE IF s[Len(s)] = " " THEN strip(SubSeq(s, 1, Len(s) - 1))
    ELSE Head(s) \o strip(Tail(s))

\* expected_mode = (instance.get('expected_mode') or '').strip()
ExpectedModes == {strip(c) : c \in ConfiguredModes}

Init ==
    /\ expected_mode \in ExpectedModes
    /\ pc = "start"
    /\ exc = ""
    /\ zk_version = <<>>
    /\ sc = "none"
    /\ num_reads = 0
    /\ recvs = 0
    /\ buf = EmptyBuffer
    /\ nsock = 0
    /\ open_socks = {}
    /\ calls = <<>>
    /\ outcomes = <<>>
    /\ service_checks = <<>>
    /\ gauges = <<>>
    /\ timeouts = 0
    /\ client_exception = 0
    /\ instance_sets = <<>>
    /\ parsed = <<>>
    /\ ret = StatInactive

Next ==
    \/ CheckStart
    \/ Connect
    \/ SendAll
    \/ RecvFirst
    \/ RecvLoop
    \/ RuokHandle
    \/ StatHandle
    \/ MntrHandle

Spec == Init /\ [][Next]_vars

-----------------------------------------------------------------------------
(* parse_stat on its own: a buffer is drawn, the parser is applied to it *)

\* the digits version segments are drawn from
SegDigits == {"0", "1", "3", "4", "5"}

\* the digit strings of length 1..n over SegDigits, none with a leading "0"
\* unless it is "0" itself
RECURSIVE SegsOfLen(_)
SegsOfLen(n) ==
    IF n = 1 THEN {<<d>> : d \in SegDigits}
    ELSE {Append(s, d) : s \in {x \in SegsOfLen(n - 1) : x[1] # "0"}, d \in SegDigits}

Segs == UNION {SegsOfLen(n) : n \in 1..MaxSegLen}

Majors == {<<"3">>, <<"4">>}

\* <<a, b, c>> as numbers is at least <<x, y, z>>
NumGE(seg, x, y, z) ==
    LET a == IntOfDigits(seg[1])
        b == IntOfDigits(seg[2])
        c == IntOfDigits(seg[3])
    IN  a > x \/ (a = x /\ (b > y \/ (b = y /\ c >= z)))

\* zxid values: that of the documentation, 0, the largest and smallest halves
ZxidInputs ==
    { DocZxid,
      <<0>>,
      <<15, 15, 15, 15, 15, 15, 15, 15>>,
      <<8, 0, 0, 0, 0, 0, 0, 0>>,
      <<1, 2, 3, 4, 5, 6, 7, 8, 9, 10, 11, 12, 13, 14, 15, 0>>,
      <<7, 15, 15, 15, 15, 15, 15, 15, 15, 15, 15, 15, 15, 15, 15, 15>>,
      <<8, 0, 0, 0, 0, 0, 0, 0, 0, 0, 0, 0, 0, 0, 0, 0>>,
      <<15, 15, 15, 15, 15, 15, 15, 15, 15, 15, 15, 15, 15, 15, 15, 15>> }

\* the replies of a server of version a.b.c: a "Connections:" line from 3.4.4 on
ValidStatReplies ==
    { StatReply(a, b, c, n, IF NumGE(<<a, b, c>>, 3, 4, 4) THEN 5 ELSE -1,
                DocZxid, "leader") :
        a \in Majors, b \in Segs, c \in Segs, n \in {0, 2} }

ZxidStatReplies ==
    { StatReply(D("3"), D("2"), D("2"), 6, -1, z, m) :
        z \in ZxidInputs, m \in {"leader", "Follower"} }

StatInputs == ValidStatReplies \cup ZxidStatReplies \cup StatReplies

InitStat ==
    /\ buf \in StatInputs
    /\ pc = "parse_stat"
    /\ ret = StatInactive
    /\ expected_mode = ""
    /\ exc = ""
    /\ zk_version = <<>>
    /\ sc = "none"
    /\ num_reads = 0
    /\ recvs = 0
    /\ nsock = 0
    /\ open_socks = {}
    /\ calls = <<>>
    /\ outcomes = <<>>
    /\ service_checks = <<>>
    /\ gauges = <<>>
    /\ timeouts = 0
    /\ client_exception = 0
    /\ instance_sets = <<>>
    /\ parsed = <<>>

\* metrics, new_tags, state, zk_version = self.parse_stat(stat_out)
ParseStat ==
    /\ pc = "parse_stat"
    /\ ret' = parse_stat(buf)
    /\ pc' = "parsed"
    /\ UNCHANGED <<expected_mode, exc, zk_version, sc, num_reads, recvs, buf, nsock,
                   open_socks, calls, outcomes, service_checks, gauges, timeouts,
                   client_exception, instance_sets, parsed>>

NextStat == ParseStat

SpecStat == InitStat /\ [][NextStat]_vars

-----------------------------------------------------------------------------
(* parse_mntr on its own: a buffer is drawn, the parser is applied to it *)

StateKey == <<"zk", "_", "server", "_", "state">>

\* keys: two of the documented ones, two that hold 'zk' after the first
\* characters, one without 'zk' and without '_'
MntrKeys ==
    { <<"zk", "_", "avg", "_", "latency">>,
      <<"zk", "_", "znode", "_", "count">>,
      <<"zk", "_", "max", "_", "zk", "_", "sessions">>,
      <<"jvm", "_", "zk", "_", "threads">>,
      <<"latency">> }

MntrValues == {MInt(0), MInt(4), MWord(<<"n/a">>)}

MntrStates == {"Standalone", "leader"}

KeyLines == {MnKV(k, v) : k \in MntrKeys, v \in MntrValues}

\* the sequences of at most n key lines
RECURSIVE KeyLinesUpTo(_)
KeyLinesUpTo(n) ==
    IF n = 0 THEN {<<>>}
    ELSE KeyLinesUpTo(n - 1)
           \cup {Append(q, l) : q \in {x \in KeyLinesUpTo(n - 1) : Len(x) = n - 1},
                                l \in KeyLines}

\* the heading, the key lines, and a zk_server_state line or none
MntrInputs ==
    { Buffer(<<MntrHead>> \o q \o st, TRUE) :
        q \in KeyLinesUpTo(MaxKeyLines),
        st \in {<<>>} \cup {<<MnKV(StateKey, MWord(<<w>>))>> : w \in MntrStates} }
      \cup MntrReplies

InitMntr ==
    /\ buf \in MntrInputs
    /\ pc = "parse_mntr"
    /\ ret = MntrInactive
    /\ expected_mode = ""
    /\ exc = ""
    /\ zk_version = <<>>
    /\ sc = "none"
    /\ num_reads = 0
    /\ recvs = 0
    /\ nsock = 0
    /\ open_socks = {}
    /\ calls = <<>>
    /\ outcomes = <<>>
    /\ service_checks = <<>>
    /\ gauges = <<>>
    /\ timeouts = 0
    /\ client_exception = 0
    /\ instance_sets = <<>>
    /\ parsed = <<>>

\* metrics, state = self.parse_mntr(mntr_out)
ParseMntr ==
    /\ pc = "parse_mntr"
    /\ ret' = parse_mntr(buf)
    /\ pc' = "parsed"
    /\ UNCHANGED <<expected_mode, exc, zk_version, sc, num_reads, recvs, buf, nsock,
                   open_socks, calls, outcomes, service_checks, gauges, timeouts,
                   client_exception, instance_sets, parsed>>

NextMntr == ParseMntr

SpecMntr == InitMntr /\ [][NextMntr]_vars

-----------------------------------------------------------------------------
(* set_instance_status on its own: called with one status after another *)

\* the seven keys, and strings that are no key
StatusInputs ==
    InstanceStateSet \cup {"", "readonly", "Leader", "mode:leader", "0x1034799c7"}

InitStatus ==
    /\ pc = "set_instance_status"
    /\ gauges = <<>>
    /\ instance_sets = <<>>
    /\ ret = StatInactive
    /\ buf = EmptyBuffer
    /\ expected_mode = ""
    /\ exc = ""
    /\ zk_version = <<>>
    /\ sc = "none"
    /\ num_reads = 0
    /\ recvs = 0
    /\ nsock = 0
    /\ open_socks = {}
    /\ calls = <<>>
    /\ outcomes = <<>>
    /\ service_checks = <<>>
    /\ timeouts = 0
    /\ client_exception = 0
    /\ parsed = <<>>

\* self.set_instance_status(hostname, status): the set call, then the gauges
SetInstanceStatus ==
    /\ pc = "set_instance_status"
    /\ Len(instance_sets) < MaxStatusCalls
    /\ \E status \in StatusInputs :
         /\ instance_sets' = Append(instance_sets, status)
         /\ gauges' = gauges \o set_instance_status(status)
    /\ UNCHANGED <<expected_mode, pc, exc, zk_version, sc, num_reads, recvs, buf,
                   nsock, open_socks, calls, outcomes, service_checks, timeouts,
                   client_exception, parsed, ret>>

NextStatus == SetInstanceStatus

SpecStatus == InitStatus /\ [][NextStatus]_vars

-----------------------------------------------------------------------------
(* Properties *)

Range(q) == {q[i] : i \in DOMAIN q}

\* the invocation of check is over
Ended == pc \in {"done", "raised"}

\* _send_command is running
Running == {"created", "connected", "sent", "reading"}

InstanceGaugeNames == {"zookeeper.instances." \o st : st \in InstanceStateSet}

\* the zookeeper.instances.* gauges emitted so far
InstanceGauges == SelectSeq(gauges, LAMBDA g : g.name \in InstanceGaugeNames)

\* seven gauges, one per state, one of them 1 and six of them 0
OneHotInstanceGauges ==
    LET ig == InstanceGauges IN
    /\ Len(ig) = 7
    /\ \A n \in InstanceGaugeNames : Cardinality({i \in DOMAIN ig : ig[i].name = n}) = 1
    /\ Cardinality({i \in DOMAIN ig : ig[i].value = 1}) = 1
    /\ Cardinality({i \in DOMAIN ig : ig[i].value = 0}) = 6

\* the i-th _send_command call was for cmd and ended as how
Ended_(i, cmd, how) ==
    /\ Len(outcomes) >= i
    /\ calls[i] = cmd
    /\ outcomes[i] = how

\* parse_stat was called and left by an exception
StatParseRaised ==
    \E i \in DOMAIN parsed : parsed[i].cmd = "stat" /\ parsed[i].res.kind = "raise"

RuokChecks == SelectSeq(service_checks, LAMBDA c : c.name = "zookeeper.ruok")

\* the line readline() returns from the response is 'imok'
ReadsImok(b) ==
    /\ Len(b.lines) >= 1
    /\ b.lines[1] = TextLine("imok")
    /\ ~HasNewline(b, 1)

\* C2: every invocation of check emits exactly one zookeeper.ruok service
\* check, whatever the outcome of the ruok command: OK when the line read from
\* the response is 'imok', WARNING for any other response, CRITICAL when the
\* command ended in a transport failure.
C2_OneRuokCheck ==
    /\ [](Ended =>
            /\ Len(RuokChecks) = 1
            /\ Ended_(1, "ruok", "ZKConnectionFailure") => RuokChecks[1].status = CRITICAL)
    /\ [][(pc = "ruok" /\ sc = "returned") =>
            service_checks' =
              <<ServiceCheck("zookeeper.ruok", IF ReadsImok(buf) THEN OK ELSE WARNING)>>]_vars

\* parse_stat raised on a buffer that starts with a version line and holds,
\* further down, a line that is no "key: value"
MalformedStatRaised ==
    \E i \in DOMAIN parsed :
      /\ parsed[i].cmd = "stat"
      /\ parsed[i].res.kind = "raise"
      /\ parsed[i].buf.lines[1].t = "ver"
      /\ \E j \in 2..Len(parsed[i].buf.lines) : parsed[i].buf.lines[j].t = "text"

\* C3: when the stat response starts with a version line and a later line
\* has not the 'key: value' shape, so that parse_stat raises, check records
\* the state 'unknown', increments zookeeper.datadog_client_exception once
\* and returns without an exception.
C3_StatParseErrorIsUnknown ==
    (Ended /\ MalformedStatRaised) =>
      /\ pc = "done"
      /\ instance_sets = <<"unknown">>
      /\ client_exception = 1

MntrParseRaised ==
    \E i \in DOMAIN parsed : parsed[i].cmd = "mntr" /\ parsed[i].res.kind = "raise"

StatMetricNames ==
    {"zookeeper.latency.min", "zookeeper.latency.avg", "zookeeper.latency.max",
     "zookeeper.bytes_received", "zookeeper.bytes_sent", "zookeeper.connections",
     "zookeeper.bytes_outstanding", "zookeeper.outstanding_requests",
     "zookeeper.zxid.epoch", "zookeeper.zxid.count", "zookeeper.nodes"}

\* the gauges of the mntr metrics: those that are neither stat metrics nor
\* instance gauges
MntrGauges ==
    SelectSeq(gauges, LAMBDA g : g.name \notin StatMetricNames \cup InstanceGaugeNames)

\* C4: when parse_mntr cannot parse the mntr response, the failure is caught
\* inside check: zookeeper.datadog_client_exception is incremented once, no
\* mntr gauge is emitted and check returns without an exception.
C4_MntrParseErrorIsCaught ==
    (Ended /\ MntrParseRaised) =>
      /\ pc = "done"
      /\ client_exception = 1
      /\ MntrGauges = <<>>

\* the i-th command ran over the read cap and check has dealt with it
OverrunHandled(i, cmd) == Ended_(i, cmd, "Exception") /\ pc # cmd

StatVersionAbove340 ==
    \E i \in DOMAIN parsed :
      /\ parsed[i].cmd = "stat"
      /\ parsed[i].res.kind = "ok"
      /\ parsed[i].res.version # <<>>
      /\ LET seg == parsed[i].buf.lines[1].seg
             a == IntOfDigits(seg[1])
             b == IntOfDigits(seg[2])
             c == IntOfDigits(seg[3])
         IN  a > 3 \/ (a = 3 /\ (b > 4 \/ (b = 4 /\ c > 0)))

LinesKeyed(b, key) == {i \in DOMAIN b.lines : b.lines[i].key = key}

ClientCount(b) == Cardinality({i \in DOMAIN b.lines : b.lines[i].t = "client"})

\* the value of the "Connections:" line, -1 when there is none
ExplicitConnections(b) ==
    IF LinesKeyed(b, "Connections") = {} THEN -1
    ELSE b.lines[CHOOSE i \in LinesKeyed(b, "Connections") : TRUE].val.n

\* a reply of the documented grammar, with a "Connections:" line exactly
\* when its version is, as three numbers, at least 3.4.4
ValidStat(b) ==
    /\ Len(b.lines) >= 1
    /\ b.lines[1].t = "ver"
    /\ LinesKeyed(b, "Zxid") # {}
    /\ LinesKeyed(b, "Mode") # {}
    /\ (ExplicitConnections(b) >= 0) <=> NumGE(b.lines[1].seg, 3, 4, 4)
    /\ b = StatReply(b.lines[1].seg[1], b.lines[1].seg[2], b.lines[1].seg[3],
                     ClientCount(b), ExplicitConnections(b),
                     b.lines[CHOOSE i \in LinesKeyed(b, "Zxid") : TRUE].val.hex,
                     b.lines[CHOOSE i \in LinesKeyed(b, "Mode") : TRUE].val.w)

\* the values of the metrics of the given name in a parse_stat result
MetricValues(r, name) ==
    {r.metrics[i][2] : i \in {j \in DOMAIN r.metrics : r.metrics[j][1] = name}}

MetricCount(r, name) ==
    Cardinality({j \in DOMAIN r.metrics : r.metrics[j][1] = name})

\* C7: for every valid stat response parse_stat returns one
\* zookeeper.connections metric; it is the value of the "Connections:" line
\* when the version is numerically >= 3.4.4 (3.4.10 and 3.10.0 included) and
\* the number of client lines when the version is < 3.4.4.
C7_ConnectionsByVersion ==
    (pc = "parsed" /\ ValidStat(buf)) =>
      /\ ret.kind = "ok"
      /\ MetricCount(ret, "zookeeper.connections") = 1
      /\ MetricValues(ret, "zookeeper.connections") =
           {IF NumGE(buf.lines[1].seg, 3, 4, 4)
            THEN ExplicitConnections(buf) ELSE ClientCount(buf)}

\* parse_stat has returned the metrics of a buffer whose line "Zxid:" holds
\* 0x1034799c7
ParsedDocZxid ==
    /\ pc = "parsed"
    /\ \E i \in LinesKeyed(buf, "Zxid") : buf.lines[i].val = HexTok(DocZxid)
    /\ ret.kind = "ok"
    /\ ~ret.none

\* C8 as stated: for the line 'Zxid: 0x1034799c7' parse_stat returns
\* zookeeper.zxid.epoch = 1 and zookeeper.zxid.count = 55924167.
C8_DocZxidAsStated ==
    ParsedDocZxid =>
      /\ MetricValues(ret, "zookeeper.zxid.epoch") = {1}
      /\ MetricValues(ret, "zookeeper.zxid.count") = {55924167}

\* C8, amended: for the line 'Zxid: 0x1034799c7' the metrics parse_stat
\* returns hold zookeeper.zxid.epoch = 1 and zookeeper.zxid.count = 55024071
\* (0x034799c7).
C8_DocZxid ==
    ParsedDocZxid =>
      /\ MetricValues(ret, "zookeeper.zxid.epoch") = {1}
      /\ MetricValues(ret, "zookeeper.zxid.count") = {55024071}

\* the example of the module documentation has been parsed
C8_Witness ==
    /\ ParsedDocZxid
    /\ buf = StatReply(D("3"), D("2"), D("2"), 6, -1, DocZxid, "leader")
    /\ MetricValues(ret, "zookeeper.zxid.count") = {55024071}

\* how far a running _send_command is
Stage ==
    CASE sc = "created" -> 0
      [] sc = "connected" -> 1
      [] sc = "sent" -> 2
      [] sc = "reading" -> 3
      [] OTHER -> 4

SendCommandStep == Connect \/ SendAll \/ RecvFirst \/ RecvLoop

\* a step of a running _send_command ends it or moves it forward
SendCommandAdvances ==
    /\ sc' \in Exits \/ (sc' \in Running /\ Stage' + recvs' > Stage + recvs)
    /\ (sc = "reading" /\ sc' # "Exception") => recvs < max_reads + 1
    /\ sc' = "returned" => sc \in {"sent", "reading"}
    /\ sc' = "Exception" => (sc = "reading" /\ recvs = max_reads + 1)

\* C9: every call of _send_command terminates.  A running call can always
\* take a step; each step ends the call or moves it forward (a later stage,
\* or one more recv), and at most max_reads + 1 = 10001 recv calls are made;
\* the call ends by returning the buffer after a recv that returned nothing,
\* by ZKConnectionFailure, or by the overrun exception, the last only after
\* max_reads + 1 chunks of data.
C9_SendCommandTerminates ==
    /\ [](sc \in Running => (recvs <= max_reads + 1 /\ recvs = num_reads))
    /\ [][(sc \in Running) => SendCommandAdvances]_vars
    /\ [](sc \in Running => ENABLED SendCommandStep)

\* the last recv the cap allows has returned data
C9_Witness == sc = "reading" /\ recvs = max_reads + 1

\* C10: the socket _send_command opened is closed when control is back in
\* check, on every way out; no socket is open when check has returned or
\* raised, and at most one socket is open at any moment.
C10_SocketClosed ==
    /\ Cardinality(open_socks) <= 1
    /\ sc \in Running => open_socks = {nsock}
    /\ sc \notin Running => open_socks = {}
    /\ Ended => open_socks = {}

\* three calls, the last one ended by the overrun exception, nothing left open
C10_Witness ==
    /\ pc = "done"
    /\ nsock = 3
    /\ outcomes = <<"returned", "returned", "Exception">>
    /\ open_socks = {}

\* parse_mntr was called on a response whose first line is the sentinel
MntrSentinelParsed ==
    \E i \in DOMAIN parsed :
      /\ parsed[i].cmd = "mntr"
      /\ ReadLine(parsed[i].buf, 1) = TextLine(Sentinel)

\* C11: when the first line of the mntr response is the sentinel 'This
\* ZooKeeper instance is not currently serving requests', followed by a line
\* terminator or not, parse_mntr returns no metrics and the state 'inactive',
\* check emits no mntr gauge and returns without an exception.
C11_SentinelIsInactive ==
    (Ended /\ MntrSentinelParsed) =>
      /\ \A i \in DOMAIN parsed :
           parsed[i].cmd = "mntr" => parsed[i].res = MntrInactive
      /\ MntrGauges = <<>>
      /\ pc = "done"

ModeChecks == SelectSeq(service_checks, LAMBDA c : c.name = "zookeeper.mode")

\* the state parse_stat returned in this invocation
StatStates ==
    {parsed[i].res.mode :
       i \in {j \in DOMAIN parsed : parsed[j].cmd = "stat" /\ parsed[j].res.kind = "ok"}}

\* C12: an invocation of check emits at most one zookeeper.mode service
\* check, and only when a non-empty expected_mode is configured; its status
\* is OK when the state parsed from stat equals expected_mode and CRITICAL
\* otherwise, the state 'inactive' included.
C12_ModeCheck ==
    /\ Len(ModeChecks) <= 1
    /\ ModeChecks # <<>> =>
         /\ expected_mode # ""
         /\ Cardinality(StatStates) = 1
         /\ \A st \in StatStates :
              ModeChecks[1].status = (IF st = expected_mode THEN OK ELSE CRITICAL)
    /\ (ModeChecks # <<>> /\ instance_sets = <<"inactive">>) =>
         ModeChecks[1].status = CRITICAL

\* expected_mode is 'leader', the stat response did not start with a version
\* line, and the mode check is CRITICAL
C12_Witness ==
    /\ pc = "done"
    /\ expected_mode = "leader"
    /\ instance_sets = <<"inactive">>
    /\ ModeChecks = <<ServiceCheck("zookeeper.mode", CRITICAL)>>

\* the lines after the first of a mntr buffer
KeyLineIdx(b) == 2..Len(b.lines)

\* a heading, then lines of two words, the second an integer except on the
\* zk_server_state line, which is there
MntrClean(b) ==
    /\ Len(b.lines) >= 2
    /\ b.lines[1] = MntrHead
    /\ \A i \in KeyLineIdx(b) :
         /\ b.lines[i].t = "mn"
         /\ Len(b.lines[i].toks) = 2
         /\ b.lines[i].toks[1].atoms # StateKey => b.lines[i].toks[2].isint
    /\ \E i \in KeyLineIdx(b) : b.lines[i].toks[1].atoms = StateKey

\* parse_mntr has returned metrics
MntrAccepted == pc = "parsed" /\ ret.kind = "ok" /\ ~ret.none

\* the key with the prefix 'zk' replaced by 'zookeeper' and every '_' by '.'
PrefixRenamed(atoms) ==
    CASE atoms = <<"zk", "_", "avg", "_", "latency">> -> "zookeeper.avg.latency"
      [] atoms = <<"zk", "_", "znode", "_", "count">> -> "zookeeper.znode.count"
      [] atoms = <<"zk", "_", "max", "_", "zk", "_", "sessions">> ->
           "zookeeper.max.zk.sessions"
      [] atoms = <<"jvm", "_", "zk", "_", "threads">> -> "jvm.zk.threads"
      [] atoms = <<"latency">> -> "latency"
      [] atoms = StateKey -> "zookeeper.server.state"
      [] atoms = <<"zk", "_", "version">> -> "zookeeper.version"

\* the key with every 'zk' replaced by 'zookeeper' and every '_' by '.'
EveryRenamed(atoms) ==
    CASE atoms = <<"zk", "_", "max", "_", "zk", "_", "sessions">> ->
           "zookeeper.max.zookeeper.sessions"
      [] atoms = <<"jvm", "_", "zk", "_", "threads">> -> "jvm.zookeeper.threads"
      [] OTHER -> PrefixRenamed(atoms)

\* the last line of the buffer with the given key
LastLineOf(b, atoms) ==
    CHOOSE i \in KeyLineIdx(b) :
      /\ b.lines[i].toks[1].atoms = atoms
      /\ \A j \in KeyLineIdx(b) : b.lines[j].toks[1].atoms = atoms => j <= i

\* the metrics are those of the key lines other than zk_server_state, under
\* the names Renamed gives them, each with the integer of its last line
MetricsRenamedBy(Renamed(_)) ==
    /\ ret.metrics =
         { <<Renamed(b_atoms), buf.lines[LastLineOf(buf, b_atoms)].toks[2].n>> :
             b_atoms \in {buf.lines[i].toks[1].atoms : i \in KeyLineIdx(buf)} \ {StateKey} }
    /\ \A m \in ret.metrics : m[1] # "zookeeper.server.state" /\ m[2] \in Int
    /\ LET w == buf.lines[LastLineOf(buf, StateKey)].toks[2].atoms
       IN  ret.state = (IF w = <<"Standalone">> THEN "standalone" ELSE "leader")

\* C13 as stated: for every mntr response parse_mntr accepts, each key of a
\* line after the first is renamed by replacing the prefix 'zk' with
\* 'zookeeper' and every '_' with '.'; the value of zk_server_state is
\* returned lower-cased as the state; the metrics never hold the key
\* zookeeper.server.state and their values are integers.
C13_PrefixRenamed == MntrAccepted => MetricsRenamedBy(PrefixRenamed)

\* C13, amended: for every mntr response parse_mntr accepts (and it accepts
\* every response of a heading followed by 'key value' lines with integer
\* values and a zk_server_state line), each key of a line after the first is
\* renamed by replacing every occurrence of 'zk', not the prefix only, with
\* 'zookeeper' and every '_' with '.'; the value of zk_server_state is
\* returned lower-cased as the state; the metrics never hold the key
\* zookeeper.server.state and their values are integers.
C13_EveryZkRenamed ==
    /\ (pc = "parsed" /\ MntrClean(buf)) => MntrAccepted
    /\ MntrAccepted => MetricsRenamedBy(EveryRenamed)

\* a response with zk_avg_latency and a key that holds 'zk' after its prefix
C13_Witness ==
    /\ MntrAccepted
    /\ <<"zookeeper.avg.latency", 4>> \in ret.metrics
    /\ <<"zookeeper.max.zookeeper.sessions", 0>> \in ret.metrics
    /\ ret.state = "standalone"

\* a call of _send_command is made: on a socket of its own, none being open
OwnConnection ==
    calls' # calls =>
      /\ Len(calls') = Len(calls) + 1
      /\ nsock' = nsock + 1
      /\ open_socks = {}
      /\ open_socks' = {nsock'}

\* C14: in one invocation of check the commands are sent in the order ruok,
\* stat, mntr, each at most once (no retry) and each on a connection of its
\* own; stat is sent if and only if ruok did not end in a failure; after a
\* transport failure of ruok the failure is propagated to the caller, with
\* one zookeeper.timeouts increment, and neither stat nor mntr is sent.
C14_CommandOrder ==
    /\ [](calls \in {<<>>, <<"ruok">>, <<"ruok", "stat">>, <<"ruok", "stat", "mntr">>})
    /\ [](nsock = Len(calls))
    /\ [][OwnConnection]_vars
    /\ []((Ended \/ pc \in {"stat", "mntr"}) =>
            ("stat" \in Range(calls) <=> Ended_(1, "ruok", "returned")))
    /\ []((Ended /\ Ended_(1, "ruok", "ZKConnectionFailure")) =>
            /\ pc = "raised"
            /\ exc = "ZKConnectionFailure"
            /\ timeouts = 1
            /\ calls = <<"ruok">>)

\* the ruok command failed in transport and check has raised
C14_Witness ==
    /\ pc = "raised"
    /\ exc = "ZKConnectionFailure"
    /\ calls = <<"ruok">>
    /\ outcomes = <<"ZKConnectionFailure">>
    /\ timeouts = 1

\* the gauges of the stat metrics emitted so far
StatGauges == SelectSeq(gauges, LAMBDA g : g.name \in StatMetricNames)

\* check is past the try statement of the stat command
StatHandled == Len(outcomes) >= 2 /\ pc # "stat"

\* the stat command returned a response; it is the first the parsers saw
StatResponse == parsed[1].buf

\* the lower-cased value of the "Mode:" line of a response that has one
ModeOf(b) == Lower(b.lines[CHOOSE i \in LinesKeyed(b, "Mode") : TRUE].val.w)

\* C15: the instance state check records after the stat command is 'down',
\* with one zookeeper.timeouts increment and check going on without raising,
\* when stat ended in a transport failure; 'inactive', with no stat metric
\* gauge, when the first line of the response does not match the version
\* pattern; otherwise the lower-cased value of the 'Mode:' line, all the stat
\* metrics being emitted as gauges tagged mode:<role>.
C15_StateAfterStat ==
    StatHandled =>
      CASE outcomes[2] = "ZKConnectionFailure" ->
             /\ instance_sets = <<"down">>
             /\ timeouts = 1
             /\ pc # "raised"
        [] outcomes[2] = "returned" /\ ~version_pattern(ReadLine(StatResponse, 1)) ->
             /\ instance_sets = <<"inactive">>
             /\ StatGauges = <<>>
        [] outcomes[2] = "returned" /\ version_pattern(ReadLine(StatResponse, 1)) ->
             /\ LinesKeyed(StatResponse, "Mode") # {}
             /\ instance_sets = <<ModeOf(StatResponse)>>
             /\ {g.name : g \in Range(StatGauges)} = StatMetricNames
             /\ \A g \in Range(StatGauges) :
                  g.tags = <<"mode:" \o ModeOf(StatResponse)>>
        [] OTHER -> TRUE

\* the gauges a step has added
NewGauges == SubSeq(gauges', Len(gauges) + 1, Len(gauges'))

\* the status the step has passed to set_instance_status
StatusPassed == instance_sets'[Len(instance_sets')]

\* the step emits the seven gauges once each, the one of the given state
\* with 1 and the six others with 0
EmitsOneHot(state) ==
    /\ Len(NewGauges) = 7
    /\ \A st \in {"leader", "follower", "observer", "standalone", "down",
                   "inactive", "unknown"} :
         \E i \in 1..7 :
           /\ NewGauges[i].name = "zookeeper.instances." \o st
           /\ NewGauges[i].value = (IF st = state THEN 1 ELSE 0)
           /\ \A j \in 1..7 : NewGauges[j].name = NewGauges[i].name => j = i

\* C16: for every status string, a call of set_instance_status emits each of
\* the seven zookeeper.instances.<state> gauges exactly once, one of them with
\* 1 and six with 0; the one with 1 is that of the status when the status is
\* one of the seven states, and zookeeper.instances.unknown otherwise.
C16_OneHotPerCall ==
    [][instance_sets' # instance_sets =>
         EmitsOneHot(IF StatusPassed \in {"leader", "follower", "observer",
                                          "standalone", "down", "inactive", "unknown"}
                     THEN StatusPassed ELSE "unknown")]_vars

\* set_instance_status was called with 'readonly', then with 'follower'
C16_Witness ==
    /\ instance_sets = <<"readonly", "follower">>
    /\ Len(gauges) = 14
    /\ Gauge("zookeeper.instances.unknown", 1, <<>>) \in Range(SubSeq(gauges, 1, 7))
    /\ Gauge("zookeeper.instances.follower", 1, <<>>) \in Range(SubSeq(gauges, 8, 14))

\* the hex digits of the "Zxid:" line of a stat response
ZxidOf(b) == b.lines[CHOOSE i \in LinesKeyed(b, "Zxid") : TRUE].val.hex

\* the high and the low 32 bits of a zxid, each as a signed 32-bit integer
SignedHalves(z) ==
    CASE z = DocZxid -> <<1, 55024071>>
      [] z = <<0>> -> <<0, 0>>
      [] z = <<15, 15, 15, 15, 15, 15, 15, 15>> -> <<0, -1>>
      [] z = <<8, 0, 0, 0, 0, 0, 0, 0>> -> <<0, -2147483647 - 1>>
      [] z = <<1, 2, 3, 4, 5, 6, 7, 8, 9, 10, 11, 12, 13, 14, 15, 0>> ->
           <<305419896, -1698898192>>
      [] z = <<7, 15, 15, 15, 15, 15, 15, 15, 15, 15, 15, 15, 15, 15, 15, 15>> ->
           <<2147483647, -1>>
      [] z = <<8, 0, 0, 0, 0, 0, 0, 0, 0, 0, 0, 0, 0, 0, 0, 0>> ->
           <<-2147483647 - 1, 0>>
      [] z = <<15, 15, 15, 15, 15, 15, 15, 15, 15, 15, 15, 15, 15, 15, 15, 15>> ->
           <<-1, -1>>

\* C17: for every 64-bit unsigned value on the 'Zxid:' line, 0 to 2^64 - 1,
\* parse_stat succeeds and returns zookeeper.zxid.epoch equal to the high 32
\* bits and zookeeper.zxid.count equal to the low 32 bits of the value, each
\* read as a signed 32-bit two's-complement integer.
C17_ZxidSplit ==
    (pc = "parsed" /\ buf \in ZxidStatReplies) =>
      /\ ret.kind = "ok"
      /\ MetricValues(ret, "zookeeper.zxid.epoch") = {SignedHalves(ZxidOf(buf))[1]}
      /\ MetricValues(ret, "zookeeper.zxid.count") = {SignedHalves(ZxidOf(buf))[2]}

\* a step taken after _send_command('mntr') was called leaves the instance
\* status alone
MntrPhaseKeepsStatus ==
    "mntr" \in Range(calls) =>
      /\ instance_sets' = instance_sets
      /\ InstanceGauges' = InstanceGauges

\* C18: the mntr phase of check leaves the recorded instance status
\* unchanged: set_instance_status is called at most once in an invocation
\* and only in the stat phase, and no zookeeper.instances.* gauge is emitted
\* after the mntr command is sent, whatever state mntr reports and however
\* it fails.
C18_MntrKeepsStatus ==
    /\ [](Len(instance_sets) <= 1 /\ Len(InstanceGauges) = 7 * Len(instance_sets))
    /\ [][instance_sets' # instance_sets => (pc = "stat" /\ calls = <<"ruok", "stat">>)]_vars
    /\ [][MntrPhaseKeepsStatus]_vars

\* stat said 'follower', mntr said 'standalone' and its metrics were emitted
C18_Witness ==
    /\ pc = "done"
    /\ calls = <<"ruok", "stat", "mntr">>
    /\ instance_sets = <<"follower">>
    /\ \E i \in DOMAIN parsed :
         parsed[i].cmd = "mntr" /\ parsed[i].res.state = "standalone"
    /\ MntrGauges # <<>>
    /\ Gauge("zookeeper.instances.follower", 1, <<>>) \in Range(gauges)
    /\ Gauge("zookeeper.instances.standalone", 0, <<>>) \in Range(gauges)

\* the i-th command ended by an exception and check has dealt with it
FailureHandled(i, cmd) ==
    /\ Len(outcomes) >= i
    /\ calls[i] = cmd
    /\ outcomes[i] # "returned"
    /\ pc # cmd

\* C19: in one invocation of check the counters zookeeper.timeouts and
\* zookeeper.datadog_client_exception are incremented at most once in total:
\* a failure of ruok ends the invocation, a failure of stat leaves the
\* version absent so that mntr is not sent, and so at most one command of an
\* invocation reaches a handler that counts.
C19_AtMostOneCount ==
    /\ timeouts + client_exception <= 1
    /\ FailureHandled(1, "ruok") => (pc = "raised" /\ calls = <<"ruok">>)
    /\ FailureHandled(2, "stat") =>
         /\ zk_version = <<>>
         /\ calls = <<"ruok", "stat">>
         /\ pc = "done"
         /\ timeouts + client_exception = 1
    /\ FailureHandled(3, "mntr") =>
         /\ outcomes = <<"returned", "returned", outcomes[3]>>
         /\ timeouts + client_exception = 1

\* ruok and stat were answered, mntr failed in transport: one increment
C19_Witness ==
    /\ pc = "done"
    /\ FailureHandled(3, "mntr")
    /\ outcomes[3] = "ZKConnectionFailure"
    /\ timeouts = 1
    /\ client_exception = 0

====
